---- MODULE Spec2Model ----
(***************************************************************************)
(* middleman.py: an agent loop between an operator, a completion service   *)
(* and a shell.  main() keeps the conversation in `context`, feeds the     *)
(* result of a command (or of a declined confirmation) back as the next    *)
(* user turn through `carry_over_message`, and stops on a "terminate"      *)
(* response or on an uncaught exception.                                   *)
(*                                                                         *)
(* A Python str is a sequence of one-character strings.  None is the       *)
(* one-element sequence <<"None">>, whose element is not a character.      *)
(***************************************************************************)
EXTENDS Integers, Sequences, FiniteSets, TLC

\* ------------------------------------------------------------------ bounds
\* main() is an endless loop: an iteration starts only while the turns it can
\* append (user, assistant, command result) still fit under MaxTurns.
MaxTurns == 8

\* ----------------------------------------------------------------- strings
None == <<"None">>

\* Python truthiness of an Optional[str]: None and "" are falsy.
Truthy(v) == v # None /\ v # <<>>

NL == <<"\n">>

UpperAlpha == <<"A", "B", "C", "D", "E", "F", "G", "H", "I", "J", "K", "L", "M",
                "N", "O", "P", "Q", "R", "S", "T", "U", "V", "W", "X", "Y", "Z">>
LowerAlpha == <<"a", "b", "c", "d", "e", "f", "g", "h", "i", "j", "k", "l", "m",
                "n", "o", "p", "q", "r", "s", "t", "u", "v", "w", "x", "y", "z">>

LowerChar(c) ==
    IF \E i \in 1..26 : UpperAlpha[i] = c
    THEN LowerAlpha[CHOOSE i \in 1..26 : UpperAlpha[i] = c]
    ELSE c

\* str.lower()
Lower(s) == [i \in 1..Len(s) |-> LowerChar(s[i])]

YES == <<"y", "e", "s">>

\* ------------------------------------------------------------ the formatter
HdrUserInput == <<"-", "-", "-", " ", "U", "s", "e", "r", " ", "I", "n", "p", "u", "t", ":", "\n">>
HdrCommand == <<"-", "-", "-", " ", "C", "O", "M", "M", "A", "N", "D", ":", "\n">>
HdrDeclined == <<"-", "-", "-", " ", "D", "E", "C", "L", "I", "N", "E", "D", "\n">>
HdrStdout == <<"-", "-", "-", " ", "S", "T", "D", "O", "U", "T", ":", "\n">>
HdrStderr == <<"-", "-", "-", " ", "S", "T", "D", "E", "R", "R", ":", "\n">>

\* The order the docstring of format_message lists the sections in: the
\* declined marker last.
format_message_docstring_order(user_input, command, stdout, stderr, declined) ==
    LET m0 == <<>>
        m1 == IF Truthy(user_input) THEN m0 \o HdrUserInput \o user_input \o NL ELSE m0
        m2 == IF Truthy(command) THEN m1 \o HdrCommand \o command \o NL ELSE m1
        m3 == IF Truthy(stdout) THEN m2 \o HdrStdout \o stdout \o NL ELSE m2
        m4 == IF Truthy(stderr) THEN m3 \o HdrStderr \o stderr \o NL ELSE m3
        m5 == IF declined THEN m4 \o HdrDeclined ELSE m4
    IN  m5

\* A formatter that writes the header of every string section, present or not.
format_message_all_headers(user_input, command, stdout, stderr, declined) ==
    LET Val(v) == IF Truthy(v) THEN v \o NL ELSE NL
    IN  HdrUserInput \o Val(user_input) \o HdrCommand \o Val(command)
        \o (IF declined THEN HdrDeclined ELSE <<>>)
        \o HdrStdout \o Val(stdout) \o HdrStderr \o Val(stderr)

format_message(user_input, command, stdout, stderr, declined) ==
    LET m0 == <<>>
        m1 == IF Truthy(user_input) THEN m0 \o HdrUserInput \o user_input \o NL ELSE m0
        m2 == IF Truthy(command) THEN m1 \o HdrCommand \o command \o NL ELSE m1
        m3 == IF declined THEN m2 \o HdrDeclined ELSE m2
        m4 == IF Truthy(stdout) THEN m3 \o HdrStdout \o stdout \o NL ELSE m3
        m5 == IF Truthy(stderr) THEN m4 \o HdrStderr \o stderr \o NL ELSE m4
    IN  m5

\* ------------------------------------------------- the structured response
SYSTEM_PROMPT == <<"SYSTEM_PROMPT">>

Absent == <<"absent">>

Literals == {"plain", "command", "terminate"}

\* What the operator can type at ">> ".
Lines == {<<>>, <<"h", "i">>}

\* What the operator can type at the confirmation prompt.
Answers == {YES, <<"Y", "e", "s">>, <<"n", "o">>, <<"y">>, <<>>, <<" ", "y", "e", "s">>}

\* The command texts the completion service can send.
Commands == {None, <<>>, <<"l", "s">>, <<"r", "m">>}

\* The JSON objects the completion service can answer with.
Payloads ==
    [type : Literals \cup {"bogus"}, content : {<<"o", "k">>, Absent},
     command : Commands, confirm : BOOLEAN]

\* class Response(BaseModel): the payload validates when type is one of the
\* literals, content is a string, command a string or null, confirm a bool.
ResponseValid(p) ==
    /\ p.type \in Literals
    /\ p.content # Absent /\ p.content # None
    /\ p.command # Absent
    /\ p.confirm \in BOOLEAN

\* message.parsed
Parsed(p) == [type |-> p.type, content |-> p.content, command |-> p.command, confirm |-> p.confirm]

JsonStr(v) == IF v = None THEN <<"null">> ELSE IF v = Absent THEN <<>> ELSE <<"'">> \o v \o <<"'">>

\* message.content: the text of the payload as the service sent it.
RawText(p) ==
    <<"{", "type", p.type, "content">> \o JsonStr(p.content)
        \o <<"command">> \o JsonStr(p.command)
        \o <<"confirm", IF p.confirm THEN "true" ELSE "false", "}">>

Unbound == [type |-> "unbound", content |-> None, command |-> None, confirm |-> FALSE]

\* What the shell can answer to a command: the empty command line runs
\* nothing, prints nothing and exits with 0.
ShellResults(cmd) ==
    IF cmd = <<>>
    THEN {[stdout |-> <<>>, stderr |-> <<>>, returncode |-> 0]}
    ELSE [stdout : {<<>>, <<"a", "\n">>}, stderr : {<<>>, <<"e">>}, returncode : {0, 1}]

Turn(r, c) == [role |-> r, content |-> c]

Last(s) == s[Len(s)]

\* A history that keeps a window: once it holds four turns, the oldest turn
\* after the system turn is dropped for each turn appended.
AppendTurn_window(ctx, r, c) ==
    IF Len(ctx) < 4 THEN Append(ctx, Turn(r, c))
    ELSE <<ctx[1]>> \o SubSeq(ctx, 3, Len(ctx)) \o <<Turn(r, c)>>

\* context.append({"role": r, "content": c})
AppendTurn(ctx, r, c) == Append(ctx, Turn(r, c))

\* ------------------------------------------------------------------- state
VARIABLES
    context,             \* main: the conversation history
    carry_over_message,  \* main: the pending message, or None
    pc,                  \* where main() is: input, ask, confirm, exec, done, crashed
    error,               \* the exception that ended main(), or "none"
    user_input,          \* main: local
    ai_response,         \* main: local, the parsed response
    content,             \* main: local, the raw payload
    command,             \* main: local
    confirm,             \* main: local
    user_confirmation,   \* main: local
    stdout,              \* main: local
    stderr,              \* main: local
    returncode,          \* main: local
    output_message,      \* main: local
    run_calls,           \* the arguments of the calls of run_command, in order
    nprompt,             \* the number of calls of prompt_user
    nconfirm,            \* the number of confirmation prompts shown
    ncalls,              \* the number of calls of ask_chatgpt
    fm_args,             \* the arguments of a call of format_message
    fm_result            \* what that call returned

locals == <<user_input, ai_response, content, command, confirm, user_confirmation,
            stdout, stderr, returncode, output_message>>
io == <<run_calls, nprompt, nconfirm, ncalls>>
fm == <<fm_args, fm_result>>
vars == <<context, carry_over_message, pc, error, locals, io, fm>>

NoArgs == [user_input |-> None, command |-> None, stdout |-> None, stderr |-> None,
           declined |-> FALSE]

InitMain ==
    /\ context = <<Turn("system", SYSTEM_PROMPT)>>
    /\ carry_over_message = None
    /\ pc = "input"
    /\ error = "none"
    /\ user_input = None
    /\ ai_response = Unbound
    /\ content = None
    /\ command = None
    /\ confirm = FALSE
    /\ user_confirmation = None
    /\ stdout = None
    /\ stderr = None
    /\ returncode = 0
    /\ output_message = None
    /\ run_calls = <<>>
    /\ nprompt = 0
    /\ nconfirm = 0
    /\ ncalls = 0

Init ==
    /\ InitMain
    /\ fm_args = NoArgs
    /\ fm_result = None

\* An iteration of the loop may start.
Room == Len(context) + 3 <= MaxTurns

\* ------------------------------------------------------------ main(): input
\* Lines 126-133 with a carry-over message pending: it becomes the user turn.
UseCarryOver ==
    /\ pc = "input" /\ Room
    /\ Truthy(carry_over_message)
    /\ user_input' = carry_over_message
    /\ carry_over_message' = None
    /\ context' = AppendTurn(context, "user", user_input')
    /\ pc' = "ask"
    /\ UNCHANGED <<error, ai_response, content, command, confirm, user_confirmation,
                   stdout, stderr, returncode, output_message, io, fm>>

\* Lines 126-133 with no carry-over message: the operator types a line.
PromptUser ==
    /\ pc = "input" /\ Room
    /\ ~Truthy(carry_over_message)
    /\ \E line \in Lines :
        /\ user_input' = line
        /\ context' = AppendTurn(context, "user", line)
    /\ nprompt' = nprompt + 1
    /\ pc' = "ask"
    /\ UNCHANGED <<carry_over_message, error, ai_response, content, command, confirm,
                   user_confirmation, stdout, stderr, returncode, output_message,
                   run_calls, nconfirm, ncalls, fm>>

\* input(">> ") at the end of the operator's input raises EOFError.
PromptEOF ==
    /\ pc = "input" /\ Room
    /\ ~Truthy(carry_over_message)
    /\ nprompt' = nprompt + 1
    /\ error' = "EOFError"
    /\ pc' = "crashed"
    /\ UNCHANGED <<context, carry_over_message, locals, run_calls, nconfirm, ncalls, fm>>

\* ------------------------------------------------------- main(): completion
\* Line 140 stores the raw payload, not the parsed content field.
AssistantText_parsed_content(parsed, raw) == parsed.content

AssistantText(parsed, raw) == raw

\* Lines 142-149 and 187 without the break of line 145.
Branch_no_break(r) ==
    IF r.type = "command" THEN (IF r.confirm THEN "confirm" ELSE "exec") ELSE "input"

\* Lines 142-152 asking for a confirmation whatever the type is.
Branch_confirm_any_type(r) ==
    IF r.type = "terminate" THEN "done"
    ELSE IF r.confirm THEN "confirm"
    ELSE IF r.type = "command" THEN "exec"
    ELSE "input"

\* Lines 142-152, 187 calling the service again after a plain response.
Branch_plain_asks(r) ==
    IF r.type = "terminate" THEN "done"
    ELSE IF r.type = "command" THEN (IF r.confirm THEN "confirm" ELSE "exec")
    ELSE "ask"

\* Lines 142-152, 187: where main() goes after the assistant turn.
Branch(r) ==
    IF r.type = "terminate" THEN "done"
    ELSE IF r.type = "command" THEN (IF r.confirm THEN "confirm" ELSE "exec")
    ELSE "input"

\* Lines 136-152: the service answers with a payload the schema accepts.
AskResponds ==
    /\ pc = "ask"
    /\ \E p \in Payloads :
        /\ ResponseValid(p)
        /\ ai_response' = Parsed(p)
        /\ content' = RawText(p)
    /\ ncalls' = ncalls + 1
    /\ context' = AppendTurn(context, "assistant", AssistantText(ai_response', content'))
    /\ command' = IF ai_response'.type = "command" THEN ai_response'.command ELSE command
    /\ confirm' = IF ai_response'.type = "command" THEN ai_response'.confirm ELSE confirm
    /\ pc' = Branch(ai_response')
    /\ UNCHANGED <<carry_over_message, error, user_input, user_confirmation, stdout, stderr,
                   returncode, output_message, run_calls, nprompt, nconfirm, fm>>

\* A completion failure that is caught once and followed by a second call.
AskFails_retries ==
    /\ pc = "ask"
    /\ error = "none"
    /\ \E p \in Payloads : ~ResponseValid(p)
    /\ ncalls' = ncalls + 1
    /\ error' = "ValidationError"
    /\ pc' = "ask"
    /\ UNCHANGED <<context, carry_over_message, locals, run_calls, nprompt, nconfirm, fm>>

\* Line 136: the payload fails the validation against Response, parse() raises
\* and nothing in main() catches it.
AskFails ==
    /\ pc = "ask"
    /\ \E p \in Payloads : ~ResponseValid(p)
    /\ ncalls' = ncalls + 1
    /\ error' = "ValidationError"
    /\ pc' = "crashed"
    /\ UNCHANGED <<context, carry_over_message, locals, run_calls, nprompt, nconfirm, fm>>

NoneResponse == [type |-> "None", content |-> None, command |-> None, confirm |-> FALSE]

\* Lines 136-137: the service refuses, message.parsed and message.content are
\* None and ai_response.content raises AttributeError.
AskRefused ==
    /\ pc = "ask"
    /\ ncalls' = ncalls + 1
    /\ ai_response' = NoneResponse
    /\ content' = None
    /\ error' = "AttributeError"
    /\ pc' = "crashed"
    /\ UNCHANGED <<context, carry_over_message, user_input, command, confirm,
                   user_confirmation, stdout, stderr, returncode, output_message,
                   run_calls, nprompt, nconfirm, fm>>

\* ----------------------------------------------------- main(): confirmation
\* Line 154 declining only the answers that start with "n".
Declines_only_no(answer) == Len(answer) > 0 /\ Lower(answer)[1] = "n"

\* Line 154.
Declines(answer) == Lower(answer) # YES

\* Line 155 without declined=True.
DeclinedMessage_no_marker(cmd) == format_message(None, cmd, None, None, FALSE)

\* Line 155 passing what the operator typed as user_input.
DeclinedMessage_with_answer(cmd) == format_message(user_confirmation', cmd, None, None, TRUE)

\* Line 155.
DeclinedMessage(cmd) == format_message(None, cmd, None, None, TRUE)

\* Lines 153-157 with the declined message appended to the history at once
\* and kept as the carry-over message too.
Confirm_appends_decline ==
    /\ pc = "confirm"
    /\ \E answer \in Answers :
        /\ user_confirmation' = answer
        /\ IF Declines(answer)
           THEN /\ carry_over_message' = DeclinedMessage(command)
                /\ context' = AppendTurn(context, "user", carry_over_message')
                /\ pc' = "input"
           ELSE /\ carry_over_message' = carry_over_message
                /\ context' = context
                /\ pc' = "exec"
    /\ nconfirm' = nconfirm + 1
    /\ UNCHANGED <<error, user_input, ai_response, content, command, confirm,
                   stdout, stderr, returncode, output_message, run_calls, nprompt, ncalls, fm>>

\* Lines 153-157.
Confirm ==
    /\ pc = "confirm"
    /\ \E answer \in Answers :
        /\ user_confirmation' = answer
        /\ IF Declines(answer)
           THEN /\ carry_over_message' = DeclinedMessage(command)
                /\ pc' = "input"
           ELSE /\ carry_over_message' = carry_over_message
                /\ pc' = "exec"
    /\ nconfirm' = nconfirm + 1
    /\ UNCHANGED <<context, error, user_input, ai_response, content, command, confirm,
                   stdout, stderr, returncode, output_message, run_calls, nprompt, ncalls, fm>>

\* Line 153 at the end of the operator's input.
ConfirmEOF ==
    /\ pc = "confirm"
    /\ nconfirm' = nconfirm + 1
    /\ error' = "EOFError"
    /\ pc' = "crashed"
    /\ UNCHANGED <<context, carry_over_message, locals, run_calls, nprompt, ncalls, fm>>

\* -------------------------------------------------------- main(): execution
\* Lines 168-172.
OutputMessage(cmd, out, err) ==
    format_message(None, cmd, IF Truthy(out) THEN out ELSE None,
                   IF Truthy(err) THEN err ELSE None, FALSE)

\* Lines 160-185 with subprocess.run(..., check=True): a nonzero exit status
\* raises CalledProcessError.
Execute_check_true ==
    /\ pc = "exec"
    /\ command # None
    /\ \E r \in ShellResults(command) :
        /\ stdout' = r.stdout
        /\ stderr' = r.stderr
        /\ returncode' = r.returncode
    /\ run_calls' = Append(run_calls, command)
    /\ IF returncode' = 0
       THEN /\ output_message' = OutputMessage(command, stdout', stderr')
            /\ context' = AppendTurn(context, "assistant", output_message')
            /\ carry_over_message' = output_message'
            /\ pc' = "input"
            /\ error' = error
       ELSE /\ error' = "CalledProcessError"
            /\ pc' = "crashed"
            /\ UNCHANGED <<output_message, context, carry_over_message>>
    /\ UNCHANGED <<user_input, ai_response, content, command, confirm,
                   user_confirmation, nprompt, nconfirm, ncalls, fm>>

\* Lines 160-185 calling run_command once for the display and once more for
\* the message.
Execute_twice ==
    /\ pc = "exec"
    /\ command # None
    /\ \E r \in ShellResults(command) :
        /\ stdout' = r.stdout
        /\ stderr' = r.stderr
        /\ returncode' = r.returncode
    /\ run_calls' = run_calls \o <<command, command>>
    /\ output_message' = OutputMessage(command, stdout', stderr')
    /\ context' = AppendTurn(context, "assistant", output_message')
    /\ carry_over_message' = output_message'
    /\ pc' = "input"
    /\ UNCHANGED <<error, user_input, ai_response, content, command, confirm,
                   user_confirmation, nprompt, nconfirm, ncalls, fm>>

\* Lines 160-185: the shell runs the command.
Execute ==
    /\ pc = "exec"
    /\ command # None
    /\ \E r \in ShellResults(command) :
        /\ stdout' = r.stdout
        /\ stderr' = r.stderr
        /\ returncode' = r.returncode
    /\ run_calls' = Append(run_calls, command)
    /\ output_message' = OutputMessage(command, stdout', stderr')
    /\ context' = AppendTurn(context, "assistant", output_message')
    /\ carry_over_message' = output_message'
    /\ pc' = "input"
    /\ UNCHANGED <<error, user_input, ai_response, content, command, confirm,
                   user_confirmation, nprompt, nconfirm, ncalls, fm>>

\* Line 161 with command None: subprocess.run(None, shell=True) raises TypeError.
ExecuteNone ==
    /\ pc = "exec"
    /\ command = None
    /\ run_calls' = Append(run_calls, command)
    /\ error' = "TypeError"
    /\ pc' = "crashed"
    /\ UNCHANGED <<context, carry_over_message, locals, nprompt, nconfirm, ncalls, fm>>

\* Line 161 with the OSError caught and reported as the stderr of the command.
ExecuteLaunchFails_folded ==
    /\ pc = "exec"
    /\ command # None
    /\ run_calls' = Append(run_calls, command)
    /\ error' = "OSError"
    /\ stdout' = <<>>
    /\ stderr' = <<"e">>
    /\ output_message' = OutputMessage(command, stdout', stderr')
    /\ context' = AppendTurn(context, "assistant", output_message')
    /\ carry_over_message' = output_message'
    /\ pc' = "input"
    /\ UNCHANGED <<user_input, ai_response, content, command, confirm,
                   user_confirmation, returncode, nprompt, nconfirm, ncalls, fm>>

\* Line 161 when the shell cannot be started: subprocess.run raises OSError.
ExecuteLaunchFails ==
    /\ pc = "exec"
    /\ command # None
    /\ run_calls' = Append(run_calls, command)
    /\ error' = "OSError"
    /\ pc' = "crashed"
    /\ UNCHANGED <<context, carry_over_message, locals, nprompt, nconfirm, ncalls, fm>>

Next ==
    \/ UseCarryOver
    \/ PromptUser
    \/ PromptEOF
    \/ AskResponds
    \/ AskFails
    \/ AskRefused
    \/ Confirm
    \/ ConfirmEOF
    \/ Execute
    \/ ExecuteNone
    \/ ExecuteLaunchFails

Spec == Init /\ [][Next]_vars

\* ------------------------------------------------ format_message on its own
FmStrings == {None, <<>>, <<"x">>}

FmArgs ==
    [user_input : FmStrings, command : FmStrings, stdout : FmStrings, stderr : FmStrings,
     declined : BOOLEAN]

InitFormat ==
    /\ InitMain
    /\ fm_args \in FmArgs
    /\ fm_result = None

FormatCall ==
    /\ fm_result = None
    /\ fm_result' = format_message(fm_args.user_input, fm_args.command, fm_args.stdout,
                                   fm_args.stderr, fm_args.declined)
    /\ UNCHANGED <<context, carry_over_message, pc, error, locals, io, fm_args>>

NextFormat == FormatCall

SpecFormat == InitFormat /\ [][NextFormat]_vars

TypeOK ==
    /\ pc \in {"input", "ask", "confirm", "exec", "done", "crashed"}
    /\ Len(context) <= MaxTurns
    /\ context[1] = Turn("system", SYSTEM_PROMPT)

\* ================================================================== claims
\* The answers that are "yes" up to the case of their letters.
YesAnswers ==
    {a \in Answers : /\ Len(a) = 3
                     /\ a[1] \in {"y", "Y"}
                     /\ a[2] \in {"e", "E"}
                     /\ a[3] \in {"s", "S"}}

\* C1: run_command is called only for the most recent response, when its type is
\* "command" and either its confirm flag is false or the answer given to the
\* confirmation prompt of that response is "yes" up to case; after any other
\* answer the call is not made for that response.
C1_RunOnlyWhenAllowed ==
    [][ /\ (run_calls' # run_calls =>
              /\ pc = "exec"
              /\ ai_response.type = "command"
              /\ (ai_response.confirm => user_confirmation \in YesAnswers))
        /\ (pc' = "exec" =>
              /\ ai_response'.type = "command"
              /\ (ai_response'.confirm =>
                    /\ pc = "confirm"
                    /\ nconfirm' = nconfirm + 1
                    /\ user_confirmation' \in YesAnswers))
        /\ (pc = "confirm" /\ pc' # "exec" => run_calls' = run_calls)
      ]_vars

\* A confirmed command has run after the answer "Yes".
C1_Witness ==
    /\ pc = "input"
    /\ ncalls = 1
    /\ ai_response.type = "command"
    /\ ai_response.confirm
    /\ nconfirm = 1
    /\ user_confirmation = <<"Y", "e", "s">>
    /\ run_calls = <<ai_response.command>>

\* The operator has just declined the command of the last response.
JustDeclined ==
    /\ pc = "input"
    /\ ai_response.type = "command"
    /\ ai_response.confirm
    /\ user_confirmation \notin YesAnswers
    /\ Last(context) = Turn("assistant", content)

\* C2: when the operator declines a command with confirm true, the history is
\* left as it is, ending with the assistant turn of the raw payload; the next
\* step appends, without a prompt for an input line, a user turn whose text is
\* format_message(command=<that command>, declined=True).
C2_DeclineRoundTrip ==
    [][ /\ (/\ pc = "confirm"
            /\ nconfirm' = nconfirm + 1
            /\ error' = "none"
            /\ user_confirmation' \notin YesAnswers
            => /\ context' = context
               /\ run_calls' = run_calls
               /\ JustDeclined')
        /\ (JustDeclined
            => /\ nprompt' = nprompt
               /\ run_calls' = run_calls
               /\ context' = Append(context,
                    Turn("user", format_message(None, ai_response.command, None, None, TRUE))))
      ]_vars

\* The decline of "ls" has come back as the user turn.
C2_Witness ==
    /\ pc = "ask"
    /\ ai_response.type = "command"
    /\ ai_response.confirm
    /\ ai_response.command = <<"l", "s">>
    /\ user_confirmation = <<"y">>
    /\ nprompt = 1
    /\ run_calls = <<>>
    /\ Len(context) = 4
    /\ context[3] = Turn("assistant", content)
    /\ context[4] = Turn("user", HdrCommand \o <<"l", "s">> \o NL \o HdrDeclined)

\* C3: a response without content, or of type "command" with a null or empty
\* command, is rejected by the completion step: it is never the parsed
\* response, and main() is never at the confirmation prompt or at the
\* execution of a command that is null or empty.
C3_SchemaRejection ==
    /\ (ai_response.type \in Literals => ai_response.content \notin {Absent, None})
    /\ (ai_response.type = "command" => Truthy(ai_response.command))
    /\ (pc \in {"confirm", "exec"} => Truthy(command))

\* The result of the last command has just been appended.
JustExecuted ==
    /\ pc = "input"
    /\ output_message # None
    /\ Last(context) = Turn("assistant", output_message)

\* C4: each command that ran appends its formatted result as an assistant turn,
\* and the next step appends a user turn with the same text without prompting
\* the operator.
C4_ResultBecomesNextUserTurn ==
    [][ /\ (run_calls' # run_calls /\ error' = "none"
            => /\ context' = Append(context, Turn("assistant", output_message'))
               /\ output_message' = format_message(None, command,
                                        IF stdout' = <<>> THEN None ELSE stdout',
                                        IF stderr' = <<>> THEN None ELSE stderr', FALSE)
               /\ JustExecuted')
        /\ (JustExecuted
            => /\ nprompt' = nprompt
               /\ context' = Append(context, Turn("user", output_message)))
      ]_vars

\* C5: the history starts with the system turn and only grows at its end: each
\* step keeps every turn of the history at its index.
C5_HistoryAppendOnly ==
    [][ /\ context[1] = Turn("system", SYSTEM_PROMPT)
        /\ Len(context') >= Len(context)
        /\ SubSeq(context', 1, Len(context)) = context
      ]_vars

\* Three iterations have appended their turns, one of them a command result.
C5_Witness ==
    /\ Len(context) >= 7
    /\ context[1] = Turn("system", SYSTEM_PROMPT)
    /\ run_calls # <<>>
    /\ ncalls = 3

\* The last response processed has type "terminate".
Terminated ==
    /\ ai_response.type = "terminate"
    /\ Last(context) = Turn("assistant", content)

\* C6: once a "terminate" response is processed main() is done: no turn is
\* appended, no line or confirmation is asked for, no completion call is made
\* and no command is run, whatever command and confirm hold.
C6_TerminateIsTerminal ==
    [][ Terminated
        => /\ pc = "done"
           /\ context' = context
           /\ nprompt' = nprompt
           /\ nconfirm' = nconfirm
           /\ ncalls' = ncalls
           /\ run_calls' = run_calls
      ]_vars

\* A "terminate" response that carries a command and confirm true has ended
\* a session in which a command had run.
C6_Witness ==
    /\ pc = "done"
    /\ Terminated
    /\ ai_response.confirm
    /\ ai_response.command = <<"r", "m">>
    /\ Len(run_calls) = 1
    /\ Len(context) < MaxTurns

\* C7: a command that ran with empty stdout and empty stderr yields a message
\* made of the command section alone.
C7_EmptyOutputOnlyCommand ==
    (JustExecuted /\ stdout = <<>> /\ stderr = <<>>)
        => output_message = HdrCommand \o command \o NL

\* The sections of a message in their order, each with its presence.
FmSections(a) ==
    << [present |-> a.user_input \notin {None, <<>>}, text |-> HdrUserInput \o a.user_input \o NL],
       [present |-> a.command \notin {None, <<>>}, text |-> HdrCommand \o a.command \o NL],
       [present |-> a.declined, text |-> HdrDeclined],
       [present |-> a.stdout \notin {None, <<>>}, text |-> HdrStdout \o a.stdout \o NL],
       [present |-> a.stderr \notin {None, <<>>}, text |-> HdrStderr \o a.stderr \o NL] >>

RECURSIVE JoinPresent(_)
JoinPresent(secs) ==
    IF secs = <<>> THEN <<>>
    ELSE (IF Head(secs).present THEN Head(secs).text ELSE <<>>) \o JoinPresent(Tail(secs))

C9_RawPayloadAppended ==
    [][ /\ (ncalls' # ncalls /\ error' = "none"
            => /\ Last(context) = Turn("user", user_input)
               /\ content' = RawText(ai_response')
               /\ context' = Append(context, Turn("assistant", RawText(ai_response')))
               /\ nconfirm' = nconfirm
               /\ run_calls' = run_calls)
        /\ (nconfirm' # nconfirm \/ run_calls' # run_calls
            => Last(context) = Turn("assistant", RawText(ai_response)))
      ]_vars

\* The raw payload of a command response is in the history and the
\* confirmation prompt has not been shown yet.
C9_Witness ==
    /\ pc = "confirm"
    /\ nconfirm = 0
    /\ run_calls = <<>>
    /\ Len(context) = 3
    /\ context[2].role = "user"
    /\ context[3] = Turn("assistant", RawText(ai_response))
    /\ context[3].content # ai_response.content

\* C10: a completion call that fails on a malformed response ends main(): the
\* history still ends with the user turn of the call, and afterwards no turn is
\* appended, no call is made, no command is run and nothing is asked.
C10_MalformedEndsSession ==
    [][ /\ (ncalls' # ncalls /\ error' = "ValidationError"
            => /\ context' = context
               /\ Last(context) = Turn("user", user_input)
               /\ run_calls' = run_calls
               /\ pc' = "crashed")
        /\ (error = "ValidationError"
            => /\ context' = context
               /\ ncalls' = ncalls
               /\ nprompt' = nprompt
               /\ nconfirm' = nconfirm
               /\ run_calls' = run_calls)
      ]_vars

\* The second completion call of a session has failed on a malformed response.
C10_Witness ==
    /\ pc = "crashed"
    /\ error = "ValidationError"
    /\ ncalls = 2
    /\ Last(context) = Turn("user", user_input)
    /\ Len(context) = 4

\* C11: the carry-over slot holds at most one message: it is empty whenever a
\* decline or an execution stores a message in it, and the message stored is
\* taken by the very next input step, which clears the slot and appends the
\* message as the user turn without reading a line from the operator.
C11_CarryOverConsumedOnce ==
    [][ /\ (carry_over_message' # carry_over_message /\ pc' = "input"
            => /\ ~Truthy(carry_over_message)
               /\ (JustDeclined' \/ JustExecuted'))
        /\ (JustDeclined \/ JustExecuted
            => /\ nprompt' = nprompt
               /\ carry_over_message' = None
               /\ context' = Append(context, Turn("user", carry_over_message)))
      ]_vars

\* C12: a shell that cannot be started ends main() with the OSError: the step
\* appends no turn, stores no carry-over message and leaves stdout, stderr and
\* the output message as they were, and no step follows it.
C12_LaunchFailureSurfaces ==
    [][ /\ (run_calls' # run_calls /\ error' = "OSError"
            => /\ context' = context
               /\ carry_over_message' = carry_over_message
               /\ stdout' = stdout /\ stderr' = stderr
               /\ output_message' = output_message
               /\ pc' = "crashed")
        /\ (error = "OSError"
            => /\ pc = "crashed"
               /\ context' = context
               /\ carry_over_message' = carry_over_message
               /\ io' = io)
      ]_vars

\* The shell could not be started for the second command of a session.
C12_Witness ==
    /\ pc = "crashed"
    /\ error = "OSError"
    /\ Len(run_calls) = 2
    /\ Last(context) = Turn("assistant", content)
    /\ ai_response.command = run_calls[2]
    /\ ~Truthy(carry_over_message)

\* C13: a nonzero exit status is no error: every command the shell ran appends
\* the same turn, stores the same carry-over message and goes back to the
\* input step, all of them determined by the command, stdout and stderr alone.
C13_ExitCodeIsData ==
    [][ run_calls' # run_calls /\ error' \notin {"OSError", "TypeError"}
        => /\ error' = "none"
           /\ pc' = "input"
           /\ carry_over_message' =
                (IF command = <<>> THEN <<>> ELSE HdrCommand \o command \o NL)
                \o (IF stdout' = <<>> THEN <<>> ELSE HdrStdout \o stdout' \o NL)
                \o (IF stderr' = <<>> THEN <<>> ELSE HdrStderr \o stderr' \o NL)
           /\ context' = Append(context, Turn("assistant", carry_over_message'))
      ]_vars

\* A command that wrote to stderr and exited with 1 is back at the input step.
C13_Witness ==
    /\ pc = "input"
    /\ error = "none"
    /\ returncode = 1
    /\ stderr = <<"e">>
    /\ Len(run_calls) = 1
    /\ JustExecuted
    /\ carry_over_message = output_message

\* C14: for a response of type plain or terminate the command and confirm
\* fields do nothing: no confirmation prompt, no execution, no result message
\* and no carry-over message come from it.
C14_FieldsIgnoredUnlessCommand ==
    [][ ai_response'.type \in {"plain", "terminate"}
        => /\ pc' \notin {"confirm", "exec"}
           /\ nconfirm' = nconfirm
           /\ run_calls' = run_calls
           /\ output_message' = output_message
           /\ carry_over_message' = carry_over_message
           /\ ~Truthy(carry_over_message')
           /\ (ai_response' # ai_response
               => /\ context' = Append(context, Turn("assistant", RawText(ai_response')))
                  /\ pc' = IF ai_response'.type = "plain" THEN "input" ELSE "done")
      ]_vars

\* A plain response with a command and confirm true has been processed.
C14_Witness ==
    /\ pc = "input"
    /\ ai_response.type = "plain"
    /\ ai_response.confirm
    /\ ai_response.command = <<"r", "m">>
    /\ nconfirm = 0
    /\ run_calls = <<>>
    /\ Len(context) = 3

\* C15: a plain response leads back to the input step with no carry-over
\* message pending; the next turn is a user turn with a line read from the
\* operator and no completion call comes before it.
C15_PlainReturnsToPrompt ==
    [][ /\ (ncalls' # ncalls /\ ai_response'.type = "plain" /\ error' = "none"
            => pc' = "input" /\ ~Truthy(carry_over_message'))
        /\ (pc = "input" /\ ai_response.type = "plain"
            => /\ ~Truthy(carry_over_message)
               /\ ncalls' = ncalls
               /\ nprompt' = nprompt + 1
               /\ (context' # context
                   => /\ user_input' \in Lines
                      /\ context' = Append(context, Turn("user", user_input'))))
      ]_vars

\* After a plain response the operator has typed the next line.
C15_Witness ==
    /\ pc = "ask"
    /\ ai_response.type = "plain"
    /\ ncalls = 1
    /\ nprompt = 2
    /\ Len(context) = 4
    /\ context[4] = Turn("user", <<"h", "i">>)

\* The raw payloads of the responses the schema accepts.
RawTexts == {RawText(Parsed(p)) : p \in {q \in Payloads : ResponseValid(q)}}

\* The turns of ctx from index i on are groups of a user turn, an assistant
\* turn with a raw payload and at most one more assistant turn; the last group
\* may be its user turn alone when loneUser holds.
RECURSIVE GroupsFrom(_, _, _)
GroupsFrom(ctx, i, loneUser) ==
    IF i > Len(ctx) THEN TRUE
    ELSE /\ ctx[i].role = "user"
         /\ IF i = Len(ctx) THEN loneUser
            ELSE /\ ctx[i + 1].role = "assistant"
                 /\ ctx[i + 1].content \in RawTexts
                 /\ IF i + 2 <= Len(ctx) /\ ctx[i + 2].role = "assistant"
                    THEN ctx[i + 2].content \notin RawTexts /\ GroupsFrom(ctx, i + 3, loneUser)
                    ELSE GroupsFrom(ctx, i + 2, loneUser)

UserTurns == Cardinality({i \in DOMAIN context : context[i].role = "user"})

\* The completion calls made: those that returned or raised and the one that
\* main() is waiting for.
CallsMade == ncalls + (IF pc = "ask" THEN 1 ELSE 0)

NoAdjacentUsers ==
    \A i \in 1..(Len(context) - 1) :
        ~(context[i].role = "user" /\ context[i + 1].role = "user")

\* C16 as claimed: whenever no completion call is in flight the history is the
\* system turn followed by complete groups of a user turn, the raw payload and
\* at most one command result; user turns are never adjacent, a call is made
\* on a history ending with a user turn and there are as many calls as user
\* turns.
C16_HistoryShapeComplete ==
    pc # "ask"
    => /\ context[1].role = "system"
       /\ GroupsFrom(context, 2, FALSE)
       /\ NoAdjacentUsers
       /\ UserTurns = CallsMade

\* C16: the history is the system turn followed by groups of a user turn, the
\* raw payload and at most one command result, where the last group is its
\* user turn alone exactly while the completion call for it is in flight or
\* after that call failed; user turns are never adjacent, a call is made on a
\* history ending with a user turn and there are as many calls as user turns.
C16_HistoryShape ==
    /\ context[1].role = "system"
    /\ GroupsFrom(context, 2, pc = "ask" \/ error \in {"ValidationError", "AttributeError"})
    /\ (Len(context) > 1 /\ Last(context).role = "user"
        <=> pc = "ask" \/ error \in {"ValidationError", "AttributeError"})
    /\ NoAdjacentUsers
    /\ UserTurns = CallsMade

\* A declined command and then a command that ran: two groups, the second
\* with a command result.
C16_Witness ==
    /\ pc = "input"
    /\ Len(context) = 6
    /\ [i \in 1..6 |-> context[i].role]
         = <<"system", "user", "assistant", "user", "assistant", "assistant">>
    /\ nconfirm = 1
    /\ Len(run_calls) = 1
    /\ ncalls = 2

\* The raw payloads in ctx of the responses of type "command", and those among
\* them with confirm true.
CommandResponses(ctx) ==
    {i \in DOMAIN ctx : /\ ctx[i].role = "assistant"
                        /\ ctx[i].content \in RawTexts
                        /\ ctx[i].content[3] = "command"}

ConfirmResponses(ctx) ==
    {i \in CommandResponses(ctx) : ctx[i].content[Len(ctx[i].content) - 1] = "true"}

\* C17: run_command is called with the command field of the response received
\* in the same iteration, whose raw payload is the last turn; a command
\* response is followed by at most one confirmation prompt and at most one
\* call, so no command runs twice or comes from an earlier response.
C17_RunsCommandOfThisResponse ==
    [][ /\ (run_calls' # run_calls
            => /\ pc = "exec" /\ pc' # "exec"
               /\ ai_response.type = "command"
               /\ run_calls' = Append(run_calls, ai_response.command)
               /\ Last(context) = Turn("assistant", RawText(ai_response)))
        /\ (nconfirm' # nconfirm
            => /\ pc = "confirm" /\ pc' # "confirm"
               /\ nconfirm' = nconfirm + 1
               /\ Last(context) = Turn("assistant", RawText(ai_response)))
        /\ Len(run_calls') <= Cardinality(CommandResponses(context'))
        /\ nconfirm' <= Cardinality(ConfirmResponses(context'))
      ]_vars

\* Two responses, "ls" and then "rm", have each run once.
C17_Witness ==
    /\ pc = "input"
    /\ ncalls = 2
    /\ run_calls = << <<"l", "s">>, <<"r", "m">> >>
    /\ ai_response.command = <<"r", "m">>
    /\ Cardinality(CommandResponses(context)) = 2

\* The history of the run that differs from this one only in the confirm flag
\* of the command response that has just run: its raw payload says false.
HistoryIfConfirmFalse ==
    SubSeq(context, 1, Len(context) - 2)
        \o <<Turn("assistant", RawText([ai_response EXCEPT !.confirm = FALSE])), Last(context)>>

\* C18 as claimed: the declined message holds nothing of what the operator
\* typed, and after the answer "yes" the history is the history of the run in
\* which the same command response had confirm false.
C18_AnswerNeverInHistory ==
    /\ (JustDeclined
        => carry_over_message =
             (IF Truthy(ai_response.command)
              THEN HdrCommand \o ai_response.command \o NL ELSE <<>>) \o HdrDeclined)
    /\ (JustExecuted /\ ai_response.type = "command" /\ ai_response.confirm
        => context = HistoryIfConfirmFalse)

\* C18: what the operator types at the confirmation prompt never enters the
\* history: a decline leaves the history as it is and stores a message fixed
\* by the command alone, an acceptance changes neither, and the turn a command
\* appends after the raw payload is fixed by the command and its output, the
\* same after "yes" as with confirm false.
C18_AnswerOnlyDecides ==
    [][ /\ (nconfirm' # nconfirm /\ error' = "none"
            => /\ context' = context
               /\ IF user_confirmation' \in YesAnswers
                  THEN carry_over_message' = carry_over_message /\ pc' = "exec"
                  ELSE /\ pc' = "input"
                       /\ carry_over_message' =
                            (IF Truthy(ai_response.command)
                             THEN HdrCommand \o ai_response.command \o NL ELSE <<>>)
                            \o HdrDeclined)
        /\ (run_calls' # run_calls /\ error' = "none"
            => /\ SubSeq(context', 1, Len(context)) = context
               /\ Len(context') = Len(context) + 1
               /\ Last(context') = Turn("assistant",
                      OutputMessage(ai_response.command, stdout', stderr'))
               /\ carry_over_message' = Last(context').content)
      ]_vars

\* The command of a response with confirm true has run after the answer
\* "yes", and its result is the turn after the raw payload.
C18_Witness ==
    /\ JustExecuted
    /\ ai_response.type = "command"
    /\ ai_response.confirm
    /\ user_confirmation = YES
    /\ nconfirm = 1
    /\ Len(context) = 4
    /\ context[3] = Turn("assistant", RawText(ai_response))
    /\ context[4].content = HdrCommand \o ai_response.command \o NL

====
